---------------------------- MODULE Spec2Model ----------------------------
(***************************************************************************)
(* A model of fd's parallel search core (walk.rs, exit_codes.rs):          *)
(*   scan            the driver: installs the Ctrl-C handler, spawns the   *)
(*                   receiver thread, runs the walker, joins, returns      *)
(*   spawn_senders   the per-entry closure run by the walker's threads     *)
(*   spawn_receiver  the interactive receiver (Buffering -> Streaming) and *)
(*                   the receiver of --exec (job threads, batch)           *)
(*   DirEntry        the entry with its lazily filled metadata cell        *)
(*   merge_exitcodes the join of exit codes                                *)
(* An Option<T> of the source is a set with at most one element: {} is     *)
(* None and {x} is Some(x).  A path is the sequence of its components and  *)
(* is ordered as Rust orders PathBuf, component by component.              *)
(* The parallel walker is the ignore crate's: its threads take entries off *)
(* a shared stack, call the closure on each, and push the listing of a     *)
(* directory for which the closure returned Continue; a Quit stops every   *)
(* thread.  output::print_entry and print_error write one line each.       *)
(***************************************************************************)
EXTENDS Integers, Sequences, FiniteSets, TLC

\* ------------------------------------------------------------------ bounds
\* The clock runs from 0 to MaxTime milliseconds.
MaxTime == 1
\* A send waits while the channel holds this many messages and the receiver lives.
MaxChan == 2
\* config.max_results is None or Some(k), k in 0..MaxResults.
MaxResults == 2
\* The large directory of the forest "big" holds MAX_BUFFER_LENGTH + BigExtra files.
BigExtra == 2
\* merge_exitcodes is given at most this many exit codes.
MaxCodes == 3
\* metadata() and file_type() are called at most this often on a DirEntry.
MaxCalls == 4
\* config.min_depth is None or Some(k), k in 0..MaxMinDepth.
MaxMinDepth == 2

\* -------------------------------------------------------- program constants
MAX_BUFFER_LENGTH == 1000
DEFAULT_MAX_BUFFER_TIME == 100

None == {}
Some(x) == {x}

\* ---------------------------------------------------------------- ExitCode
Success == "Success"
HasResults(b) == IF b THEN "HasResults(true)" ELSE "HasResults(false)"
GeneralError == "GeneralError"
KilledBySigint == "KilledBySigint"

\* impl From<ExitCode> for i32
ExitCodeToInt(code) ==
    CASE code = Success -> 0
      [] code = HasResults(TRUE) -> 0
      [] code = HasResults(FALSE) -> 1
      [] code = GeneralError -> 1
      [] code = KilledBySigint -> 130

ExitCodes == {Success, HasResults(TRUE), HasResults(FALSE), GeneralError, KilledBySigint}

\* Mutant of is_error: only the exit status 1 counts as an error.
is_error_status_one(code) == ExitCodeToInt(code) = 1

\* ExitCode::is_error
is_error(code) == ExitCodeToInt(code) # 0

\* merge_exitcodes: GeneralError if any of the results is an error.
merge_exitcodes(results) ==
    IF \E i \in DOMAIN results : is_error(results[i]) THEN GeneralError ELSE Success

\* ------------------------------------------------------------------- paths
RECURSIVE PathLess(_, _)
\* PathBuf's Ord: lexicographic over the components; a proper prefix is smaller.
PathLess(a, b) ==
    IF b = <<>> THEN FALSE
    ELSE IF a = <<>> THEN TRUE
    ELSE IF a[1] # b[1] THEN a[1] < b[1]
    ELSE PathLess(Tail(a), Tail(b))

RECURSIVE CountLess(_, _, _, _)
\* The number of elements of the sorted sequence b that are smaller than x,
\* known to lie in lo..hi: a binary search.
CountLess(b, x, lo, hi) ==
    IF lo = hi THEN lo
    ELSE LET mid == (lo + hi) \div 2
         IN  IF PathLess(b[mid + 1], x)
             THEN CountLess(b, x, mid + 1, hi)
             ELSE CountLess(b, x, lo, mid)

RECURSIVE Merge(_, _)
\* The stable merge of two sorted runs: of equal elements, those of a come first.
Merge(a, b) ==
    IF a = <<>> THEN b
    ELSE IF b = <<>> THEN a
    ELSE LET i == (Len(a) + 1) \div 2
             k == CountLess(b, a[i], 0, Len(b))
         IN  Merge(SubSeq(a, 1, i - 1), SubSeq(b, 1, k))
                 \o <<a[i]>>
                 \o Merge(SubSeq(a, i + 1, Len(a)), SubSeq(b, k + 1, Len(b)))

\* Mutant of SortPaths: the buffer is printed as it was filled.
Unsorted(s) == s

RECURSIVE SortPaths(_)
\* buffer.sort(): a stable ascending merge sort by PathLess.
SortPaths(s) ==
    IF Len(s) <= 1 THEN s
    ELSE LET h == Len(s) \div 2
         IN  Merge(SortPaths(SubSeq(s, 1, h)), SortPaths(SubSeq(s, h + 1, Len(s))))

\* ----------------------------------------------------------------- forests
\* A forest: the roots given to scan, the listing of every directory in the
\* order read_dir yields it, the paths that come back as traversal errors,
\* the broken symlinks, and the paths the pattern does not match.
ForestEmpty ==
    [roots |-> << <<1>> >>,
     kids |-> (<<1>> :> <<>>),
     errors |-> {}, broken |-> {}, nomatch |-> {}]

ForestErrors ==
    [roots |-> << <<1>> >>,
     kids |-> (<<1>> :> << <<1, 1>>, <<1, 2>> >>),
     errors |-> {<<1, 1>>}, broken |-> {}, nomatch |-> {<<1, 2>>}]

ForestNested ==
    [roots |-> << <<1>> >>,
     kids |-> (<<1>> :> << <<1, 1>>, <<1, 2>> >>) @@ (<<1, 1>> :> << <<1, 1, 1>> >>),
     errors |-> {}, broken |-> {}, nomatch |-> {}]

ForestMixed ==
    [roots |-> << <<1>> >>,
     kids |-> (<<1>> :> << <<1, 1>>, <<1, 2>>, <<1, 3>>, <<1, 4>> >>),
     errors |-> {<<1, 3>>}, broken |-> {<<1, 2>>}, nomatch |-> {<<1, 4>>}]

ForestTwoRoots ==
    [roots |-> << <<1>>, <<2>> >>,
     kids |-> (<<1>> :> << <<1, 1>>, <<1, 2>> >>) @@ (<<2>> :> << <<2, 1>> >>),
     errors |-> {}, broken |-> {}, nomatch |-> {}]

\* The second root lies inside the first: the directory <<1, 1>> is reached both
\* as a search root and as an entry of the traversal of <<1>>.
ForestOverlap ==
    [roots |-> << <<1>>, <<1, 1>> >>,
     kids |-> (<<1>> :> << <<1, 1>>, <<1, 2>> >>) @@ (<<1, 1>> :> << <<1, 1, 1>> >>),
     errors |-> {}, broken |-> {}, nomatch |-> {<<1, 2>>}]

\* The second search root is a symbolic link whose target is missing: the walker
\* reports it as an error and the closure makes a BrokenSymlink entry of it.
ForestBrokenRoot ==
    [roots |-> << <<1>>, <<2>> >>,
     kids |-> (<<1>> :> << <<1, 1>>, <<1, 2>> >>) @@ (<<1, 1>> :> << <<1, 1, 1>> >>),
     errors |-> {}, broken |-> {<<2>>, <<1, 2>>}, nomatch |-> {}]

ForestBig ==
    [roots |-> << <<1>> >>,
     kids |-> (<<1>> :> [i \in 1..(MAX_BUFFER_LENGTH + BigExtra) |-> <<1, i>>]),
     errors |-> {}, broken |-> {}, nomatch |-> {}]

ForestOf(name) ==
    CASE name = "empty" -> ForestEmpty
      [] name = "errors" -> ForestErrors
      [] name = "nested" -> ForestNested
      [] name = "mixed" -> ForestMixed
      [] name = "tworoots" -> ForestTwoRoots
      [] name = "overlap" -> ForestOverlap
      [] name = "brokenroot" -> ForestBrokenRoot
      [] name = "big" -> ForestBig

SmallForests == {"empty", "errors", "nested", "mixed", "tworoots"}

VARIABLES
    config,         \* the Config handed to scan
    forest,         \* the name of the forest being searched
    now,            \* the clock, in milliseconds
    wants_to_quit,  \* the AtomicBool set by the Ctrl-C handler
    sigints,        \* Ctrl-C signals delivered so far
    sigint_walking, \* a first Ctrl-C reached the handler while a worker was traversing
    exited,         \* Option: the status of a process::exit
    scan_pc,        \* where scan is
    exit_code,      \* Option: what receiver_thread.join() gave scan
    scan_result,    \* Option: the ExitCode scan returned
    tx, rx,         \* scan's Sender is alive, the Receiver is alive
    chan,           \* the messages in the channel, oldest first, each with its
                    \* sender, its number and the depth of the entry it was sent for
    stack,          \* the walker's work: entries waiting for a thread, last in first out
    quit_now,       \* the walker's flag: a closure returned Quit
    wpc, wcur,      \* per walker thread: where it is, and the entry it holds
    nsent,          \* per walker thread: the messages it has sent
    sent_after,     \* per walker thread: those it sent with the flag already set
    produced,       \* the Entry messages sent so far
    rpc,            \* where the receiver thread is
    start,          \* the receiver's time::Instant::now()
    mode, buffer, num_results,
    stdout,         \* the paths handed to output::print_entry, in order
    stderr,         \* the paths of the errors handed to print_error, in order
    recv_exit,      \* Option: the ExitCode the receiver thread returned
    received,       \* <<path, from, seq, depth>> of the Entry messages the receiver took, in order
    flushes,        \* how often the receiver has flushed its buffer
    jpc, jcode,     \* per job thread of --exec: where it is, and its exit code so far
    first_run,      \* Option: what an earlier run of scan on the same tree printed
    exit_codes,     \* the exit codes collected for merge_exitcodes
    merged,         \* Option: what merge_exitcodes returned for them
    dent,           \* a DirEntry: its inner variant and its metadata cell
    lookups,        \* how often the file system was asked for its metadata
    calls           \* the metadata() and file_type() calls on it, with what they returned

vars == <<config, forest, first_run, exit_codes, merged, dent, lookups, calls, now, wants_to_quit, sigints, sigint_walking, exited,
          scan_pc, exit_code, scan_result, tx, rx, chan,
          stack, quit_now, wpc, wcur, nsent, sent_after, produced,
          rpc, start, mode, buffer, num_results, stdout, stderr, recv_exit,
          received, flushes, jpc, jcode>>

\* What no step of a run of scan changes.
envVars == <<config, forest, first_run, exit_codes, merged, dent, lookups, calls>>
scanVars == <<scan_pc, exit_code, scan_result, tx>>
walkVars == <<stack, quit_now, wpc, wcur, nsent, sent_after, produced>>
recvVars == <<rpc, start, mode, buffer, num_results, stdout, stderr, recv_exit,
              received, flushes, rx, jpc, jcode>>
sigVars == <<wants_to_quit, sigints, sigint_walking, exited>>
\* What a run of scan works on.
runVars == <<now, sigVars, scanVars, walkVars, recvVars, chan>>

Fs == ForestOf(forest)
Workers == 1..config.threads

\* What the walker hands the closure: the path, and its depth below the
\* search root the traversal started from.
Entry(p, d) == <<p, d>>
PathOf(e) == e[1]
DepthOf(e) == e[2]
\* The search root of the traversal that reached e: depth components up.
RootOf(e) == SubSeq(PathOf(e), 1, Len(PathOf(e)) - DepthOf(e))

\* The walker's first entries: every search root, at depth 0.
RootEntries == [i \in DOMAIN Fs.roots |-> Entry(Fs.roots[i], 0)]

\* The listing of the directory e, one level deeper in the same traversal.
Children(e) ==
    [i \in DOMAIN Fs.kids[PathOf(e)] |-> Entry(Fs.kids[PathOf(e)][i], DepthOf(e) + 1)]


\* ---------------------------------------------------------------- DirEntry
\* DirEntry::normal and DirEntry::broken_symlink: the cell starts empty.  The
\* cell is an Option of what it holds, which is an Option<Metadata> itself.
DirEntryNormal == [inner |-> "Normal", metadata |-> None]
DirEntryBrokenSymlink == [inner |-> "BrokenSymlink", metadata |-> None]

\* What e.metadata().ok() or path.symlink_metadata().ok() can give: None when
\* the lookup fails, or the metadata the file has at that moment.
LookupResults == {None, Some("metadata A"), Some("metadata B")}

\* Mutant of RunsInit: a failed lookup is tried again.
RunsInitAfterFailure(cell) == cell = None \/ cell = Some(None)

\* OnceCell::get_or_init runs its closure iff the cell is empty.
RunsInit(cell) == cell = None

\* Metadata::file_type
FileTypeOf(md) == <<"file type of", md>>

\* ignore::DirEntry::file_type of a Normal entry: what the walker recorded.
WalkerFileType == Some("file type from the walker")

\* The fields of Config the core reads.  ls_colors stands for
\* ls_colors.is_some(); command is None (the receiver is the interactive
\* one), a command run for each entry, or one run in batch mode.
Configs ==
    [quiet : BOOLEAN,
     max_results : {None} \cup {Some(k) : k \in 0..MaxResults},
     max_buffer_time : {None, Some(0)},
     show_filesystem_errors : BOOLEAN,
     ls_colors : BOOLEAN,
     command : {None, Some("each"), Some("batch")},
     threads : {1, 2},
     min_depth : {None} \cup {Some(k) : k \in 0..MaxMinDepth},
     prune : BOOLEAN]

\* Mutant of HandlerInstalled: the command is not looked at.
HandlerInstalledWithColors == config.ls_colors

\* scan: the handler is installed iff ls_colors.is_some() && command.is_none().
HandlerInstalled == config.ls_colors /\ config.command = None

\* The process runs: the handler has not called process::exit.
Running == exited = None

\* ------------------------------------------------------------------- Init
InitCommon ==
    /\ now = 0
    /\ wants_to_quit = FALSE
    /\ sigints = 0
    /\ sigint_walking = FALSE
    /\ exited = None
    /\ scan_pc = "spawn_receiver"
    /\ exit_code = None
    /\ scan_result = None
    /\ tx = TRUE
    /\ rx = TRUE
    /\ chan = <<>>
    /\ stack = <<>>
    /\ quit_now = FALSE
    /\ wpc = [w \in Workers |-> "unborn"]
    /\ wcur = [w \in Workers |-> Entry(<<>>, 0)]
    /\ nsent = [w \in Workers |-> 0]
    /\ sent_after = [w \in Workers |-> 0]
    /\ produced = 0
    /\ rpc = "unborn"
    /\ start = 0
    /\ mode = "Buffering"
    /\ buffer = <<>>
    /\ num_results = 0
    /\ stdout = <<>>
    /\ stderr = <<>>
    /\ recv_exit = None
    /\ received = <<>>
    /\ flushes = 0
    /\ jpc = [j \in Workers |-> "unborn"]
    /\ jcode = [j \in Workers |-> Success]

\* No earlier run, no exit codes collected, a DirEntry nobody has asked.
InitAside ==
    /\ first_run = None
    /\ exit_codes = <<>>
    /\ merged = None
    /\ dent = DirEntryNormal
    /\ lookups = 0
    /\ calls = <<>>

\* Every receiver, signal and thread configuration over the small forests, with
\* the filters of the closure left unconfigured.
Init ==
    /\ config \in {c \in Configs : c.command = None /\ c.min_depth = None /\ ~c.prune
                                     /\ c.show_filesystem_errors}
    /\ forest \in SmallForests
    /\ InitAside
    /\ InitCommon

\* ------------------------------------------------------------ environment
\* Time passes.  Only the receiver reads the clock: when it starts, and on an
\* Entry while it is Buffering; time that passes elsewhere is not observed.
Tick ==
    /\ Running
    /\ rpc = "loop"
    /\ mode = "Buffering"
    /\ now < MaxTime
    /\ now' = now + 1
    /\ UNCHANGED <<envVars, sigVars, scanVars, walkVars, recvVars, chan>>

\* The walker runs and a worker thread of it has not finished.
Traversing == scan_pc = "walk" /\ \E w \in Workers : wpc[w] # "done"

\* Mutant of HandlerExits: the handler only ever sets the flag.
HandlerNeverExits(flag) == FALSE

\* The handler's closure: the second Ctrl-C exits, the first sets the flag.
HandlerExits(flag) == flag

\* Ctrl-C while scan runs with the handler installed: the closure given to
\* ctrlc::set_handler runs.
CtrlC ==
    /\ Running
    /\ scan_pc # "done"
    /\ HandlerInstalled
    /\ sigints' = sigints + 1
    /\ IF HandlerExits(wants_to_quit)
       THEN /\ exited' = Some(ExitCodeToInt(KilledBySigint))
            /\ UNCHANGED <<wants_to_quit, sigint_walking>>
       ELSE /\ wants_to_quit' = TRUE
            /\ sigint_walking' = Traversing
            /\ UNCHANGED exited
    /\ UNCHANGED <<envVars, now, scanVars, walkVars, recvVars, chan>>


\* ----------------------------------------------------------------- channel
\* Mutant of Send: a message sent while another waits is lost.
SendDropsWhenBusy(q, m) == IF q = <<>> THEN <<m>> ELSE q

\* Mutant of Send: the message jumps the queue.
SendFront(q, m) == <<m>> \o q

\* Sender::send: the message joins the back of the queue.
Send(q, m) == Append(q, m)

\* Sender::send fails once the Receiver has been dropped.
SendFails == ~rx

\* The channel is closed: scan's Sender and every worker's clone are dropped.
Closed == ~tx /\ \A w \in Workers : wpc[w] = "done"

\* ------------------------------------------------------- spawn_senders
\* Mutant of Cancelled: the closure never looks at the flag.
NeverCancelled(flag) == FALSE

\* The closure's first statement: wants_to_quit.load().
Cancelled(flag) == flag

\* How the closure classifies what the walker hands it.
EntryKind(e) ==
    IF PathOf(e) \in Fs.errors THEN "Error"
    ELSE IF PathOf(e) \in Fs.broken THEN "BrokenSymlink"
    ELSE "Normal"

\* DirEntry::depth: the walker's depth of a Normal entry, None for a BrokenSymlink.
Depth(e) == IF EntryKind(e) = "BrokenSymlink" THEN None ELSE Some(DepthOf(e))

\* Mutant of BelowMinDepth: an unknown depth passes the test.
BelowMinDepthKnownOnly(e, min_depth) ==
    \E md \in min_depth : \E d \in Depth(e) : d < md

\* The min_depth test: reject if depth is None or below the bound.
BelowMinDepth(e, min_depth) ==
    \E md \in min_depth : Depth(e) = None \/ \E d \in Depth(e) : d < md

\* Mutant of Sends: the search roots are not skipped.
SendsRoots(e) ==
    IF EntryKind(e) = "Error" THEN Some("Error")
    ELSE IF BelowMinDepth(e, config.min_depth) THEN None
    ELSE IF PathOf(e) \in Fs.nomatch THEN None
    ELSE Some("Entry")

\* What the closure sends for e: Some("Error"), Some("Entry") or None.
Sends(e) ==
    IF EntryKind(e) = "Error" THEN Some("Error")
    ELSE IF EntryKind(e) = "Normal" /\ DepthOf(e) = 0 THEN None
    ELSE IF BelowMinDepth(e, config.min_depth) THEN None
    ELSE IF PathOf(e) \in Fs.nomatch THEN None
    ELSE Some("Entry")

\* Mutant of WalkState: prune is not applied.
WalkStateNoPrune(e, failed) ==
    IF Sends(e) = None THEN "Continue"
    ELSE IF failed THEN "Quit"
    ELSE "Continue"

\* Mutant of WalkState: a failed send is ignored.
WalkStateIgnoringSendError(e, failed) ==
    IF Sends(e) = None \/ Sends(e) = Some("Error") THEN "Continue"
    ELSE IF config.prune THEN "Skip"
    ELSE "Continue"

\* The WalkState the closure returns for e, given whether its send failed.
WalkState(e, failed) ==
    IF Sends(e) = None THEN "Continue"
    ELSE IF failed THEN "Quit"
    ELSE IF Sends(e) = Some("Error") THEN "Continue"
    ELSE IF config.prune THEN "Skip"
    ELSE "Continue"

\* The walker's worker thread asks for work: it stops when a closure returned
\* Quit, or when the stack is empty and no other worker can still add to it.
WalkerGetWork(w) ==
    /\ Running
    /\ wpc[w] = "get"
    /\ quit_now \/ stack # <<>> \/ \A v \in Workers : wpc[v] \in {"get", "done"}
    /\ IF quit_now \/ stack = <<>>
       THEN /\ wpc' = [wpc EXCEPT ![w] = "done"]
            /\ UNCHANGED <<stack, wcur>>
       ELSE /\ wpc' = [wpc EXCEPT ![w] = "check"]
            /\ wcur' = [wcur EXCEPT ![w] = stack[Len(stack)]]
            /\ stack' = SubSeq(stack, 1, Len(stack) - 1)
    /\ UNCHANGED <<envVars, now, sigVars, scanVars, recvVars, chan, quit_now, nsent,
                   sent_after, produced>>

\* The closure is entered: the cancellation check.
WorkerCheck(w) ==
    /\ Running
    /\ wpc[w] = "check"
    /\ IF Cancelled(wants_to_quit)
       THEN /\ quit_now' = TRUE
            /\ wpc' = [wpc EXCEPT ![w] = "get"]
       ELSE /\ wpc' = [wpc EXCEPT ![w] = "filter"]
            /\ UNCHANGED quit_now
    /\ UNCHANGED <<envVars, now, sigVars, scanVars, recvVars, chan, stack, wcur, nsent,
                   sent_after, produced>>

\* The rest of the closure (classification, filters, send, prune) and what
\* the walker does with the WalkState it returns.
WorkerFilter(w) ==
    /\ Running
    /\ wpc[w] = "filter"
    /\ LET e == wcur[w]
           sending == Sends(e) # None
           failed == sending /\ SendFails
           state == WalkState(e, failed)
       IN  /\ (sending /\ ~failed) => Len(chan) < MaxChan
           /\ IF sending /\ ~failed
              THEN /\ chan' = Send(chan, [type |-> CHOOSE t \in Sends(e) : TRUE,
                                          path |-> PathOf(e), from |-> w,
                                          seq |-> nsent[w] + 1, depth |-> DepthOf(e)])
                   /\ nsent' = [nsent EXCEPT ![w] = @ + 1]
                   /\ sent_after' = IF wants_to_quit
                                     THEN [sent_after EXCEPT ![w] = @ + 1]
                                     ELSE sent_after
                   /\ produced' = IF Sends(e) = Some("Entry")
                                   THEN produced + 1 ELSE produced
              ELSE UNCHANGED <<chan, nsent, sent_after, produced>>
           /\ quit_now' = (quit_now \/ state = "Quit")
           /\ stack' = IF state = "Continue" /\ PathOf(e) \in DOMAIN Fs.kids
                       THEN stack \o Children(e)
                       ELSE stack
    /\ wpc' = [wpc EXCEPT ![w] = "get"]
    /\ UNCHANGED <<envVars, now, sigVars, scanVars, recvVars, wcur>>


\* ------------------------------------------------------ spawn_receiver
\* config.max_buffer_time.unwrap_or(DEFAULT_MAX_BUFFER_TIME)
max_buffer_time ==
    IF config.max_buffer_time = None THEN DEFAULT_MAX_BUFFER_TIME
    ELSE CHOOSE t \in config.max_buffer_time : TRUE

\* Mutant of ShouldFlush: the length comparison is the wrong way round.
ShouldFlushBelowMaximum(buf, elapsed) ==
    Len(buf) < MAX_BUFFER_LENGTH \/ elapsed > max_buffer_time

\* Mutant of ShouldFlush: the elapsed time is not looked at.
ShouldFlushOnLengthOnly(buf, elapsed) == Len(buf) > MAX_BUFFER_LENGTH

\* "Have we reached the maximum buffer size or maximum buffering time?"
ShouldFlush(buf, elapsed) ==
    Len(buf) > MAX_BUFFER_LENGTH \/ elapsed > max_buffer_time

\* Mutant of FlushBuffer: only the entry that triggered the flush is printed.
FlushNewestOnly(out, buf) == Append(out, buf[Len(buf)])

\* The flush: print_entry for every v in &buffer, in the buffer's order.
FlushBuffer(out, buf) == out \o buf

\* Mutant of ClearBuffer: the flushed entries stay in the buffer.
KeepBuffer(buf) == buf

\* buffer.clear()
ClearBuffer(buf) == <<>>

\* Mutant of ModeAfter: an entry that causes no flush puts the receiver back
\* into Buffering.
ModeAfterRebuffering(m, flush) == IF flush THEN "Streaming" ELSE "Buffering"

\* The mode after an Entry: `mode = ReceiverMode::Streaming` after a flush is
\* the only assignment to it.
ModeAfter(m, flush) == IF flush THEN "Streaming" ELSE m

\* The limit test after num_results += 1.
LimitReached(n, max_results) == \E k \in max_results : n >= k

\* The exit code of the interactive receiver when its loop has ended.
FinalExitCode(quiet) == IF quiet THEN HasResults(FALSE) ELSE Success

\* Mutant of QuietExitCode: the early return reports no results.
QuietExitCodeNoResults == HasResults(FALSE)

\* The exit code of the early return on an Entry in quiet mode.
QuietExitCode == HasResults(TRUE)

\* Mutant of HandleError: the error is printed whatever the switch says.
HandleErrorAlwaysPrints(err, path, show) == Append(err, path)

\* WorkerResult::Error(err): print_error if show_filesystem_errors, else drop.
HandleError(err, path, show) == IF show THEN Append(err, path) ELSE err

\* One iteration of `for worker_result in rx`: the message at the head of
\* the queue is taken and matched.
ReceiverIter ==
    /\ Running
    /\ rpc = "loop"
    /\ chan # <<>>
    /\ LET m == Head(chan)
           buf1 == IF mode = "Buffering" THEN Append(buffer, m.path) ELSE buffer
           flush == mode = "Buffering" /\ ShouldFlush(buf1, now - start)
           n1 == num_results + 1
           stop == LimitReached(n1, config.max_results)
       IN  /\ chan' = Tail(chan)
           /\ IF m.type = "Error"
              THEN /\ stderr' = HandleError(stderr, m.path, config.show_filesystem_errors)
                   /\ UNCHANGED <<rpc, mode, buffer, num_results, stdout, recv_exit,
                                  received, flushes, rx>>
              ELSE /\ received' = Append(received, <<m.path, m.from, m.seq, m.depth>>)
                   /\ IF config.quiet
                      THEN /\ recv_exit' = Some(QuietExitCode)
                           /\ rpc' = "done"
                           /\ rx' = FALSE
                           /\ UNCHANGED <<mode, buffer, num_results, stdout, stderr, flushes>>
                      ELSE /\ buffer' = IF flush THEN ClearBuffer(buf1) ELSE buf1
                           /\ stdout' = IF mode = "Streaming" THEN Append(stdout, m.path)
                                        ELSE IF flush THEN FlushBuffer(stdout, buf1)
                                        ELSE stdout
                           /\ mode' = ModeAfter(mode, flush)
                           /\ flushes' = IF flush THEN flushes + 1 ELSE flushes
                           /\ num_results' = n1
                           /\ rpc' = IF stop THEN "final" ELSE "loop"
                           /\ rx' = ~stop
                           /\ UNCHANGED <<stderr, recv_exit>>
    /\ UNCHANGED <<envVars, now, sigVars, scanVars, walkVars, start, jpc, jcode>>

\* The loop ends because the channel is closed and empty.
ReceiverClosed ==
    /\ Running
    /\ rpc = "loop"
    /\ chan = <<>>
    /\ Closed
    /\ rpc' = "final"
    /\ rx' = FALSE
    /\ UNCHANGED <<envVars, now, sigVars, scanVars, walkVars, chan, start, mode, buffer,
                   num_results, stdout, stderr, recv_exit, received, flushes, jpc, jcode>>

\* After the loop: buffer.sort(), print what it holds, return the exit code.
ReceiverFinish ==
    /\ Running
    /\ rpc = "final"
    /\ stdout' = stdout \o SortPaths(buffer)
    /\ buffer' = <<>>
    /\ recv_exit' = Some(FinalExitCode(config.quiet))
    /\ rpc' = "done"
    /\ UNCHANGED <<envVars, now, sigVars, scanVars, walkVars, chan, start, mode,
                   num_results, stderr, received, flushes, rx, jpc, jcode>>

\* ------------------------------------------------------------ exec mode
\* What exec::batch can return: the outcome of running the command.
CommandResults == {Success, GeneralError}

\* exec::job: a job thread takes one WorkerResult from the shared receiver; for
\* an Entry it runs the command, an Error it prints if show_filesystem_errors.
\* The ExitCode the job returns in the end is left open: any of them.
ExecJobRecv(j) ==
    /\ Running
    /\ jpc[j] = "recv"
    /\ chan # <<>>
    /\ chan' = Tail(chan)
    /\ IF Head(chan).type = "Error"
       THEN /\ stderr' = HandleError(stderr, Head(chan).path, config.show_filesystem_errors)
            /\ UNCHANGED <<jcode, received>>
       ELSE /\ received' = Append(received, <<Head(chan).path, Head(chan).from,
                                              Head(chan).seq, Head(chan).depth>>)
            /\ \E code \in ExitCodes : jcode' = [jcode EXCEPT ![j] = code]
            /\ UNCHANGED stderr
    /\ UNCHANGED <<envVars, now, sigVars, scanVars, walkVars, rpc, start, mode, buffer,
                   num_results, stdout, recv_exit, flushes, rx, jpc>>

\* exec::job returns when the channel is closed and empty.
ExecJobEnd(j) ==
    /\ Running
    /\ jpc[j] = "recv"
    /\ chan = <<>>
    /\ Closed
    /\ jpc' = [jpc EXCEPT ![j] = "done"]
    /\ UNCHANGED <<envVars, now, sigVars, scanVars, walkVars, chan, rpc, start, mode,
                   buffer, num_results, stdout, stderr, recv_exit, received, flushes,
                   rx, jcode>>

\* The receiver thread joins the job threads and merges their exit codes.
ExecJoin ==
    /\ Running
    /\ rpc = "jobs"
    /\ \A j \in Workers : jpc[j] = "done"
    /\ recv_exit' = Some(merge_exitcodes([j \in Workers |-> jcode[j]]))
    /\ rpc' = "done"
    /\ rx' = FALSE
    /\ UNCHANGED <<envVars, now, sigVars, scanVars, walkVars, chan, start, mode, buffer,
                   num_results, stdout, stderr, received, flushes, jpc, jcode>>

\* exec::batch takes a WorkerResult: it keeps the path of an Entry for the
\* command line and prints an Error if show_filesystem_errors.
ExecBatchRecv ==
    /\ Running
    /\ rpc = "batch"
    /\ chan # <<>>
    /\ chan' = Tail(chan)
    /\ IF Head(chan).type = "Error"
       THEN /\ stderr' = HandleError(stderr, Head(chan).path, config.show_filesystem_errors)
            /\ UNCHANGED <<buffer, received>>
       ELSE /\ received' = Append(received, <<Head(chan).path, Head(chan).from,
                                              Head(chan).seq, Head(chan).depth>>)
            /\ buffer' = Append(buffer, Head(chan).path)
            /\ UNCHANGED stderr
    /\ UNCHANGED <<envVars, now, sigVars, scanVars, walkVars, rpc, start, mode,
                   num_results, stdout, recv_exit, flushes, rx, jpc, jcode>>

\* exec::batch runs the command on the paths when the channel is closed and
\* empty, and returns its exit code.
ExecBatchEnd ==
    /\ Running
    /\ rpc = "batch"
    /\ chan = <<>>
    /\ Closed
    /\ \E code \in CommandResults : recv_exit' = Some(code)
    /\ rpc' = "done"
    /\ rx' = FALSE
    /\ UNCHANGED <<envVars, now, sigVars, scanVars, walkVars, chan, start, mode, buffer,
                   num_results, stdout, stderr, received, flushes, jpc, jcode>>

\* -------------------------------------------------------------------- scan
\* Mutant of ScanExitCode: the flag overrides only a successful receiver.
ScanExitCodeKeepErrors(flag, code) ==
    IF flag /\ ExitCodeToInt(code) = 0 THEN KilledBySigint ELSE code

\* The exit code scan returns, from the flag it reads after the join.
ScanExitCode(flag, code) == IF flag THEN KilledBySigint ELSE code

\* spawn_receiver: the receiver thread starts.  Without a command it reads
\* the clock and enters its loop; with a batch command it calls exec::batch;
\* otherwise it spawns config.threads job threads and waits for them.
ScanSpawnReceiver ==
    /\ Running
    /\ scan_pc = "spawn_receiver"
    /\ scan_pc' = "spawn_senders"
    /\ rpc' = IF config.command = None THEN "loop"
              ELSE IF config.command = Some("batch") THEN "batch"
              ELSE "jobs"
    /\ start' = IF config.command = None THEN now ELSE start
    /\ jpc' = IF config.command = Some("each") THEN [j \in Workers |-> "recv"] ELSE jpc
    /\ UNCHANGED <<envVars, now, sigVars, exit_code, scan_result, tx, walkVars, chan,
                   mode, buffer, num_results, stdout, stderr, recv_exit, received,
                   flushes, rx, jcode>>

\* spawn_senders: the walker starts its threads on the roots.
ScanSpawnSenders ==
    /\ Running
    /\ scan_pc = "spawn_senders"
    /\ scan_pc' = "walk"
    /\ stack' = RootEntries
    /\ wpc' = [w \in Workers |-> "get"]
    /\ UNCHANGED <<envVars, now, sigVars, exit_code, scan_result, tx, recvVars, chan,
                   quit_now, wcur, nsent, sent_after, produced>>

\* spawn_senders returns when every worker has finished; tx is dropped.
ScanWalkDone ==
    /\ Running
    /\ scan_pc = "walk"
    /\ \A w \in Workers : wpc[w] = "done"
    /\ scan_pc' = "join"
    /\ tx' = FALSE
    /\ UNCHANGED <<envVars, now, sigVars, exit_code, scan_result, walkVars, recvVars, chan>>

\* receiver_thread.join()
ScanJoin ==
    /\ Running
    /\ scan_pc = "join"
    /\ rpc = "done"
    /\ scan_pc' = "check"
    /\ exit_code' = recv_exit
    /\ UNCHANGED <<envVars, now, sigVars, scan_result, tx, walkVars, recvVars, chan>>

\* wants_to_quit.load() and the return.
ScanReturn ==
    /\ Running
    /\ scan_pc = "check"
    /\ scan_pc' = "done"
    /\ scan_result' = {ScanExitCode(wants_to_quit, c) : c \in exit_code}
    /\ UNCHANGED <<envVars, now, sigVars, exit_code, tx, walkVars, recvVars, chan>>

\* ------------------------------------------------------------------- Next
Next ==
    \/ Tick
    \/ CtrlC
    \/ ScanSpawnReceiver
    \/ ScanSpawnSenders
    \/ ScanWalkDone
    \/ ScanJoin
    \/ ScanReturn
    \/ \E w \in Workers : WalkerGetWork(w)
    \/ \E w \in Workers : WorkerCheck(w)
    \/ \E w \in Workers : WorkerFilter(w)
    \/ ReceiverIter
    \/ ReceiverClosed
    \/ ReceiverFinish

Spec == Init /\ [][Next]_vars


\* Threads are scheduled: a step of scan, of a walker thread or of the
\* receiver that stays possible is eventually taken.  Time and Ctrl-C are not
\* obliged to happen.
Fairness ==
    /\ WF_vars(ScanSpawnReceiver)
    /\ WF_vars(ScanSpawnSenders)
    /\ WF_vars(ScanWalkDone)
    /\ WF_vars(ScanJoin)
    /\ WF_vars(ScanReturn)
    /\ \A w \in {1, 2} : WF_vars(w \in Workers /\ WalkerGetWork(w))
    /\ \A w \in {1, 2} : WF_vars(w \in Workers /\ WorkerCheck(w))
    /\ \A w \in {1, 2} : WF_vars(w \in Workers /\ WorkerFilter(w))
    /\ WF_vars(ReceiverIter)
    /\ WF_vars(ReceiverClosed)
    /\ WF_vars(ReceiverFinish)

\* The runs checked for liveness: both thread counts, with and without the
\* handler, quiet or not, without a limit or with a limit of one result, and
\* a buffer time that runs out.
FairInit ==
    /\ config \in {c \in Configs : /\ c.command = None /\ c.min_depth = None /\ ~c.prune
                                   /\ c.show_filesystem_errors
                                   /\ c.max_results \in {None, Some(1)}
                                   /\ c.max_buffer_time = Some(0)}
    /\ forest \in {"nested", "mixed"}
    /\ InitAside
    /\ InitCommon

FairSpec == FairInit /\ [][Next]_vars /\ Fairness

\* One thread searches the large directory with the default buffer time.
\* No handler is installed (ls_colors is None), so CtrlC can never happen.
InitBig ==
    /\ config \in {c \in Configs : /\ c.command = None /\ c.min_depth = None /\ ~c.prune
                                   /\ c.show_filesystem_errors
                                   /\ ~c.quiet /\ c.max_results = None
                                   /\ c.max_buffer_time = None
                                   /\ ~c.ls_colors /\ c.threads = 1}
    /\ forest = "big"
    /\ InitAside
    /\ InitCommon

NextBig ==
    \/ Tick
    \/ ScanSpawnReceiver
    \/ ScanSpawnSenders
    \/ ScanWalkDone
    \/ ScanJoin
    \/ ScanReturn
    \/ \E w \in Workers : WalkerGetWork(w)
    \/ \E w \in Workers : WorkerCheck(w)
    \/ \E w \in Workers : WorkerFilter(w)
    \/ ReceiverIter
    \/ ReceiverClosed
    \/ ReceiverFinish

SpecBig == InitBig /\ [][NextBig]_vars

\* The same large directory with the buffering time at its default or at zero,
\* so that the flush comes from the buffer's length on some runs and from the
\* clock, at any entry, on the others.
InitBigTimed ==
    /\ config \in {c \in Configs : /\ c.command = None /\ c.min_depth = None /\ ~c.prune
                                   /\ c.show_filesystem_errors
                                   /\ ~c.quiet /\ c.max_results = None
                                   /\ ~c.ls_colors /\ c.threads = 1}
    /\ forest = "big"
    /\ InitAside
    /\ InitCommon

SpecBigTimed == InitBigTimed /\ [][NextBig]_vars


\* The closure's filters and the receiver's handling of errors: prune,
\* min_depth and show_filesystem_errors set or not, also over a tree with
\* traversal errors and over search roots that overlap.  No handler is installed.
InitFilters ==
    /\ config \in {c \in Configs : /\ c.command = None /\ ~c.ls_colors
                                   /\ c.max_results \in {None, Some(1)}
                                   /\ c.min_depth \in {None, Some(2)}}
    /\ forest \in {"errors", "nested", "mixed", "overlap"}
    /\ InitAside
    /\ InitCommon

SpecFilters == InitFilters /\ [][NextBig]_vars

\* Every min_depth, set or not, over trees with entries at depths 1 and 2 and
\* with broken symbolic links at depths 0 and 1.  No limit, no handler.
InitDepth ==
    /\ config \in {c \in Configs : /\ c.command = None /\ ~c.ls_colors
                                   /\ ~c.quiet /\ c.max_results = None
                                   /\ c.show_filesystem_errors}
    /\ forest \in {"nested", "mixed", "brokenroot"}
    /\ InitAside
    /\ InitCommon

SpecDepth == InitDepth /\ [][NextBig]_vars

\* ------------------------------------------------- with and without --exec
\* Runs with a command for each entry, with a batch command and with none, with
\* and without ls_colors.
InitExec ==
    /\ config \in {c \in Configs : /\ c.min_depth = None /\ ~c.prune
                                   /\ ~c.quiet /\ c.max_results = None
                                   /\ c.max_buffer_time = Some(0)}
    /\ forest \in {"errors", "nested"}
    /\ InitAside
    /\ InitCommon

NextExec ==
    \/ Tick
    \/ CtrlC
    \/ ScanSpawnReceiver
    \/ ScanSpawnSenders
    \/ ScanWalkDone
    \/ ScanJoin
    \/ ScanReturn
    \/ \E w \in Workers : WalkerGetWork(w)
    \/ \E w \in Workers : WorkerCheck(w)
    \/ \E w \in Workers : WorkerFilter(w)
    \/ ReceiverIter
    \/ ReceiverClosed
    \/ ReceiverFinish
    \/ \E j \in Workers : ExecJobRecv(j)
    \/ \E j \in Workers : ExecJobEnd(j)
    \/ ExecJoin
    \/ ExecBatchRecv
    \/ ExecBatchEnd

SpecExec == InitExec /\ [][NextExec]_vars

\* ------------------------------------------------- DirEntry's metadata
\* DirEntry::metadata: the cell is filled by a lookup if it is empty, and what
\* it holds is returned.
DirEntryMetadata ==
    /\ Len(calls) < MaxCalls
    /\ \E r \in LookupResults :
          LET cell == IF RunsInit(dent.metadata) THEN Some(r) ELSE dent.metadata
          IN  /\ dent' = [dent EXCEPT !.metadata = cell]
              /\ lookups' = IF RunsInit(dent.metadata) THEN lookups + 1 ELSE lookups
              /\ calls' = Append(calls, [op |-> "metadata",
                                         ret |-> CHOOSE v \in cell : TRUE])
    /\ UNCHANGED <<config, forest, first_run, exit_codes, merged, runVars>>

\* DirEntry::file_type: the walker's for a Normal entry, that of metadata()
\* for a BrokenSymlink.
DirEntryFileType ==
    /\ Len(calls) < MaxCalls
    /\ \E r \in LookupResults :
          LET asks == dent.inner = "BrokenSymlink"
              cell == IF asks /\ RunsInit(dent.metadata) THEN Some(r) ELSE dent.metadata
              ret == IF asks THEN {FileTypeOf(md) : md \in CHOOSE v \in cell : TRUE}
                     ELSE WalkerFileType
          IN  /\ dent' = [dent EXCEPT !.metadata = cell]
              /\ lookups' = IF asks /\ RunsInit(dent.metadata) THEN lookups + 1 ELSE lookups
              /\ calls' = Append(calls, [op |-> "file_type", ret |-> ret])
    /\ UNCHANGED <<config, forest, first_run, exit_codes, merged, runVars>>

InitEntry ==
    /\ config \in {c \in Configs : /\ c.command = None /\ c.min_depth = None /\ ~c.prune
                                   /\ c.show_filesystem_errors /\ ~c.quiet
                                   /\ ~c.ls_colors /\ c.max_results = None
                                   /\ c.max_buffer_time = None /\ c.threads = 1}
    /\ forest = "mixed"
    /\ first_run = None
    /\ exit_codes = <<>>
    /\ merged = None
    /\ dent \in {DirEntryNormal, DirEntryBrokenSymlink}
    /\ lookups = 0
    /\ calls = <<>>
    /\ InitCommon

NextEntry ==
    \/ DirEntryMetadata
    \/ DirEntryFileType

SpecEntry == InitEntry /\ [][NextEntry]_vars

\* ------------------------------------------------------- merge_exitcodes
\* One more exit code is collected.
CollectExitCode ==
    /\ merged = None
    /\ Len(exit_codes) < MaxCodes
    /\ \E code \in ExitCodes : exit_codes' = Append(exit_codes, code)
    /\ UNCHANGED <<config, forest, first_run, merged, dent, lookups, calls, runVars>>

\* merge_exitcodes is called on the exit codes collected.
MergeExitCodes ==
    /\ merged = None
    /\ merged' = Some(merge_exitcodes(exit_codes))
    /\ UNCHANGED <<config, forest, first_run, exit_codes, dent, lookups, calls, runVars>>

InitMerge ==
    /\ config \in {c \in Configs : /\ c.command = None /\ c.min_depth = None /\ ~c.prune
                                   /\ c.show_filesystem_errors /\ ~c.quiet
                                   /\ ~c.ls_colors /\ c.max_results = None
                                   /\ c.max_buffer_time = None}
    /\ forest = "empty"
    /\ InitAside
    /\ InitCommon

NextMerge ==
    \/ CollectExitCode
    \/ MergeExitCodes

SpecMerge == InitMerge /\ [][NextMerge]_vars

\* ------------------------------------------------------------ two runs
\* scan has returned and is run once more, in a new process, on the same tree
\* with the same Config: what the first run printed and the mode its receiver
\* ended in are kept, everything else starts afresh.
ScanAgain ==
    /\ Running
    /\ scan_pc = "done"
    /\ first_run = None
    /\ first_run' = Some([stdout |-> stdout, mode |-> mode])
    /\ now' = 0
    /\ wants_to_quit' = FALSE
    /\ sigints' = 0
    /\ sigint_walking' = FALSE
    /\ scan_pc' = "spawn_receiver"
    /\ exit_code' = None
    /\ scan_result' = None
    /\ tx' = TRUE
    /\ rx' = TRUE
    /\ chan' = <<>>
    /\ stack' = <<>>
    /\ quit_now' = FALSE
    /\ wpc' = [w \in Workers |-> "unborn"]
    /\ wcur' = [w \in Workers |-> Entry(<<>>, 0)]
    /\ nsent' = [w \in Workers |-> 0]
    /\ sent_after' = [w \in Workers |-> 0]
    /\ produced' = 0
    /\ rpc' = "unborn"
    /\ start' = 0
    /\ mode' = "Buffering"
    /\ buffer' = <<>>
    /\ num_results' = 0
    /\ stdout' = <<>>
    /\ stderr' = <<>>
    /\ recv_exit' = None
    /\ received' = <<>>
    /\ flushes' = 0
    /\ jpc' = [j \in Workers |-> "unborn"]
    /\ jcode' = [j \in Workers |-> Success]
    /\ UNCHANGED <<config, forest, exit_codes, merged, dent, lookups, calls, exited>>

\* The runs compared: one or two threads, no limit or a limit of one result,
\* the default buffer time or one that runs out; not quiet, no handler.
InitTwice ==
    /\ config \in {c \in Configs : /\ c.command = None /\ c.min_depth = None /\ ~c.prune
                                   /\ c.show_filesystem_errors
                                   /\ ~c.quiet /\ ~c.ls_colors
                                   /\ c.max_results \in {None, Some(1)}}
    /\ forest \in {"nested", "mixed"}
    /\ InitAside
    /\ InitCommon

NextTwice ==
    \/ Tick
    \/ ScanSpawnReceiver
    \/ ScanSpawnSenders
    \/ ScanWalkDone
    \/ ScanJoin
    \/ ScanReturn
    \/ \E w \in Workers : WalkerGetWork(w)
    \/ \E w \in Workers : WorkerCheck(w)
    \/ \E w \in Workers : WorkerFilter(w)
    \/ ReceiverIter
    \/ ReceiverClosed
    \/ ReceiverFinish
    \/ ScanAgain

SpecTwice == InitTwice /\ [][NextTwice]_vars

\* ------------------------------------------------------------------ claims
Min(a, b) == IF a <= b THEN a ELSE b
Count(x, s) == Cardinality({i \in DOMAIN s : s[i] = x})
SameBag(s, t) == Len(s) = Len(t) /\ \A i \in DOMAIN s : Count(s[i], s) = Count(s[i], t)
Ascending(s) == \A i \in 1..(Len(s) - 1) : ~PathLess(s[i + 1], s[i])

\* The paths of the Entry messages the receiver has taken, in arrival order.
ReceivedPaths == [i \in DOMAIN received |-> received[i][1]]
\* The messages worker w sent that the receiver has taken, in arrival order.
ReceivedFrom(w) == SelectSeq(received, LAMBDA m : m[2] = w)
\* The receiver returned from inside its loop (quiet mode, first Entry).
QuietReturn == rpc = "done" /\ recv_exit = Some(QuietExitCode)
\* The receiver's loop was left by break or by the end of the channel.
LoopEnded == rpc = "final" \/ (rpc = "done" /\ ~QuietReturn)

\* C1 (as claimed): in interactive non-quiet mode with max_results = k the
\* receiver has printed exactly min(k, produced) entries when it returns.
C1_PrintsMinOfLimitAndProduced ==
    (rpc = "done" /\ ~config.quiet /\ config.command = None)
        => \A k \in config.max_results : Len(stdout) = Min(k, produced)

\* C2: in interactive non-quiet mode no entry is ever printed more often than
\* it was received, and when the receiver has returned every Entry message it
\* took has been printed exactly once.
C2_PrintedExactlyOnce ==
    (~config.quiet /\ config.command = None)
        => /\ \A i \in DOMAIN stdout :
                 Count(stdout[i], stdout) <= Count(stdout[i], ReceivedPaths)
           /\ rpc = "done" => SameBag(stdout, ReceivedPaths)

\* C2 witness: the loop was left by max_results after a flush, with a message
\* still queued, and the receiver has returned.
C2_Witness ==
    /\ ~config.quiet /\ rpc = "done" /\ flushes = 1
    /\ config.max_results = Some(2) /\ Len(received) = 2 /\ Len(stdout) = 2
    /\ chan # <<>>

\* C3: when the loop ends in Buffering mode nothing has been printed, and the
\* complete output is the received entries in ascending path order.
C3_BufferedOutputSorted ==
    (mode = "Buffering" /\ LoopEnded)
        => /\ rpc = "final" => stdout = <<>>
           /\ rpc = "done" => Ascending(stdout) /\ SameBag(stdout, ReceivedPaths)

\* C3 witness: the receiver returned in Buffering mode having taken three
\* entries in an order that is not the sorted one.
C3_Witness ==
    /\ mode = "Buffering" /\ rpc = "done" /\ ~QuietReturn
    /\ Len(received) = 3 /\ ~Ascending(ReceivedPaths)

\* C4: in a run that ends in Streaming mode the output is the arrival order,
\* and each worker's entries appear in the order that worker sent them.
C4_StreamedOutputInArrivalOrder ==
    (rpc = "done" /\ mode = "Streaming")
        => /\ stdout = ReceivedPaths
           /\ \A w \in Workers :
                 \A i \in 1..(Len(ReceivedFrom(w)) - 1) :
                     ReceivedFrom(w)[i][3] < ReceivedFrom(w)[i + 1][3]

\* C4 witness: a streamed run of two workers, one of which sent two of the three
\* entries printed, in an order that is not the sorted one.
C4_Witness ==
    /\ rpc = "done" /\ mode = "Streaming" /\ Len(stdout) = 3
    /\ ~Ascending(stdout)
    /\ \E w \in Workers : Len(ReceivedFrom(w)) = 2

\* C5: in quiet mode nothing is ever printed; the first Entry taken ends the
\* receiver at once with HasResults(true); HasResults(false) is returned iff
\* the channel closed with no Entry taken, whatever Errors came.
C5_QuietExitCode ==
    (config.quiet /\ config.command = None)
        => /\ stdout = <<>>
           /\ Len(received) <= 1
           /\ received # <<>> => rpc = "done" /\ recv_exit = Some(HasResults(TRUE))
           /\ rpc = "done" =>
                 /\ recv_exit = Some(HasResults(TRUE)) <=> received # <<>>
                 /\ recv_exit = Some(HasResults(FALSE))
                        <=> (received = <<>> /\ Closed /\ chan = <<>>)

\* C5 witness: a quiet receiver returned HasResults(false) after an Error
\* message and no Entry.
C5_Witness ==
    /\ config.quiet /\ rpc = "done" /\ recv_exit = Some(HasResults(FALSE))
    /\ stderr # <<>>

\* C6: the step in which scan returns yields KilledBySigint iff the flag is
\* true when it is read, and the receiver's exit code unchanged otherwise.
C6_ScanExitCode ==
    [][(scan_pc = "check" /\ scan_pc' = "done")
          => /\ scan_result' = Some(KilledBySigint) <=> wants_to_quit
             /\ ~wants_to_quit => scan_result' = recv_exit]_vars

\* C6 witness: scan returned KilledBySigint although the receiver had
\* returned HasResults(false).
C6_Witness ==
    /\ scan_pc = "done" /\ scan_result = Some(KilledBySigint)
    /\ recv_exit = Some(HasResults(FALSE))


\* Every walker thread has finished.
WorkersDone == \A w \in Workers : wpc[w] = "done"
\* The receiver left its loop before the channel was exhausted.
LeftEarly == QuietReturn \/ LimitReached(num_results, config.max_results)

\* C7 (as claimed): after a single Ctrl-C during the traversal, when scan has
\* returned it returned KilledBySigint, every worker has stopped, the channel
\* is closed and the receiver has consumed every message that was in it.
C7_CtrlCDrainsChannel ==
    (sigint_walking /\ sigints = 1 /\ scan_pc = "done")
        => /\ scan_result = Some(KilledBySigint)
           /\ WorkersDone /\ Closed /\ rpc = "done"
           /\ chan = <<>>

\* C7 (amended): once the flag is set a closure invocation that reads it
\* returns Quit without sending, and a Ctrl-C during the traversal leads, unless
\* a second Ctrl-C exits the process, to a state where every worker has stopped,
\* the channel is closed, the receiver has returned and scan has returned
\* KilledBySigint; the receiver has then consumed every message in the channel
\* unless it left its loop early (max_results reached, or quiet mode's return).
C7_CtrlCWindsDown ==
    /\ [][\A w \in {1, 2} :
            (w \in Workers /\ wants_to_quit /\ wpc[w] = "check" /\ wpc'[w] # "check")
                => (wpc'[w] = "get" /\ quit_now' /\ chan' = chan)]_vars
    /\ sigint_walking ~>
          (\/ exited # None
           \/ /\ scan_pc = "done" /\ scan_result = Some(KilledBySigint)
              /\ WorkersDone /\ Closed /\ rpc = "done"
              /\ chan = <<>> \/ LeftEarly)

\* C7 witness: after one Ctrl-C during the traversal a worker returned Quit,
\* the receiver drained the channel to its end and scan returned KilledBySigint.
C7_Witness ==
    /\ sigint_walking /\ sigints = 1 /\ quit_now
    /\ scan_pc = "done" /\ scan_result = Some(KilledBySigint)
    /\ received # <<>> /\ ~LeftEarly /\ chan = <<>>

\* C8: scan eventually returns (or the process exits on a second Ctrl-C); the
\* receiver's loop ends only at channel closure, at max_results or at quiet
\* mode's first entry; once the receiver is gone no worker waits for the
\* channel, and a closure whose send fails returns Quit without sending.
C8_ScanTerminates ==
    /\ <>(scan_pc = "done" \/ exited # None)
    /\ [](rpc \in {"final", "done"} => ((Closed /\ chan = <<>>) \/ LeftEarly))
    /\ []((~rx /\ Running) =>
             \A w \in Workers : wpc[w] = "filter" => ENABLED WorkerFilter(w))
    /\ [][\A w \in {1, 2} :
            (w \in Workers /\ ~rx /\ wpc[w] = "filter" /\ Sends(wcur[w]) # None
                /\ wpc'[w] # "filter")
                => (wpc'[w] = "get" /\ quit_now' /\ chan' = chan)]_vars

\* C8 witness: the receiver returned early with a message still queued, a
\* later send failed and made the walker quit, and scan returned.
C8_Witness ==
    /\ scan_pc = "done" /\ exited = None
    /\ LeftEarly /\ chan # <<>>
    /\ quit_now /\ ~wants_to_quit

\* C9: while the elapsed time is within max_buffer_time, the receiver stays in
\* Buffering and prints nothing up to MAX_BUFFER_LENGTH entries; from entry
\* MAX_BUFFER_LENGTH + 1 on it has flushed exactly once, the buffer is empty and
\* the output is every received entry in arrival order.
C9_FlushAtBufferLimit ==
    (rpc # "unborn" /\ ~config.quiet /\ now - start <= max_buffer_time)
        => /\ Len(received) <= MAX_BUFFER_LENGTH
                 => /\ mode = "Buffering" /\ flushes = 0
                    /\ rpc = "loop" => (stdout = <<>> /\ buffer = ReceivedPaths)
           /\ Len(received) > MAX_BUFFER_LENGTH
                 => /\ mode = "Streaming" /\ flushes = 1
                    /\ buffer = <<>> /\ stdout = ReceivedPaths

\* C9 witness: entry MAX_BUFFER_LENGTH + 1 has just been accepted: one flush,
\* all of them printed, in an order that is not the sorted one.
C9_Witness ==
    /\ Len(received) = MAX_BUFFER_LENGTH + 1 /\ Len(stdout) = MAX_BUFFER_LENGTH + 1
    /\ flushes = 1 /\ mode = "Streaming" /\ now - start <= max_buffer_time
    /\ PathLess(stdout[2], stdout[1])

\* C10: the receiver leaves Buffering only in a step that processes an Entry;
\* while it is Buffering, output appears only in such a step or after the loop
\* has ended; and an Entry processed in Buffering, with at most
\* MAX_BUFFER_LENGTH entries buffered and the elapsed time above
\* max_buffer_time, flushes the buffer with that entry, in insertion order,
\* and switches to Streaming.
C10_TimeoutFlushOnNextEntry ==
    [][/\ (mode = "Buffering" /\ mode' = "Streaming")
            => Len(received') = Len(received) + 1
       /\ (mode = "Buffering" /\ stdout' # stdout)
            => (Len(received') = Len(received) + 1 \/ rpc = "final")
       /\ (/\ ~config.quiet /\ mode = "Buffering" /\ Len(buffer) <= MAX_BUFFER_LENGTH
           /\ now - start > max_buffer_time
           /\ Len(received') = Len(received) + 1)
            => /\ mode' = "Streaming" /\ buffer' = <<>>
               /\ stdout' = Append(buffer, received'[Len(received')][1])]_vars

\* C10 witness: the buffer time has run out with entries buffered, the receiver
\* is waiting in Buffering and has only handled an Error message meanwhile.
C10_Witness ==
    /\ rpc = "loop" /\ mode = "Buffering" /\ buffer # <<>> /\ stdout = <<>>
    /\ now - start > max_buffer_time
    /\ stderr # <<>> /\ chan = <<>>

\* The set of the elements of a sequence.
Range(s) == {s[i] : i \in DOMAIN s}
\* The second of two runs has ended.
SecondRunDone == first_run # None /\ rpc = "done"
\* The receiver crossed the buffering timeout: it ended in Streaming (no
\* forest of these runs holds more than MAX_BUFFER_LENGTH entries).
TimeoutCrossed(m) == m = "Streaming"

IsPrefix(a, b) == Len(a) <= Len(b) /\ SubSeq(b, 1, Len(a)) = a
StrictPrefix(a, b) == IsPrefix(a, b) /\ a # b
\* The traversal entries sent as Entry messages so far: those the receiver
\* took and those still in the channel.
SentEntries ==
    {Entry(received[i][1], received[i][4]) : i \in DOMAIN received}
        \cup {Entry(chan[i].path, chan[i].depth) :
                   i \in {j \in DOMAIN chan : chan[j].type = "Entry"}}
\* Worker w leaves the closure in this step, having sent an Entry message.
SendsEntryStep(w) ==
    wpc[w] = "filter" /\ wpc'[w] = "get" /\ produced' = produced + 1

\* C12 (as claimed): with prune = true no strict descendant of a directory
\* that was sent as an Entry is ever sent or printed.
C12_NoDescendantOfSentDirectory ==
    config.prune
        => \A d \in SentEntries : \A e \in SentEntries :
              PathOf(d) \in DOMAIN Fs.kids => ~StrictPrefix(PathOf(d), PathOf(e))

\* C12 (amended): with prune = true the closure returns Skip for every entry
\* it sends as an Entry, so the walker lists no directory that was sent, and a
\* strict descendant of a sent directory is sent or printed only by the
\* traversal of another search root that is that directory or lies inside it.
C12_PruneSkipsSentDirectory ==
    /\ [](config.prune
            => /\ \A d \in SentEntries : \A e \in SentEntries :
                     StrictPrefix(PathOf(d), PathOf(e)) => IsPrefix(PathOf(d), RootOf(e))
               /\ \A i \in DOMAIN stdout :
                     \E e \in SentEntries : PathOf(e) = stdout[i])
    /\ [][\A w \in {1, 2} :
            (w \in Workers /\ config.prune /\ SendsEntryStep(w))
                => (stack' = stack /\ quit_now' = quit_now)]_vars

\* C12 witness: with prune the directory <<1, 1>> was sent by the traversal
\* of <<1>>, its file <<1, 1, 1>> by the traversal of the root <<1, 1>>, and
\* both were printed.
C12_Witness ==
    /\ config.prune /\ rpc = "done" /\ Len(stdout) = 2
    /\ Entry(<<1, 1>>, 1) \in SentEntries
    /\ Entry(<<1, 1, 1>>, 1) \in SentEntries

\* C13: an entry of depth 0 is never sent and never printed, whatever the
\* filters are, and the closure returns Continue for it: the walker lists it
\* and no thread is told to quit.
C13_RootsNeverSent ==
    /\ [](/\ \A e \in SentEntries : DepthOf(e) > 0
          /\ \A i \in DOMAIN chan : chan[i].type = "Entry" => chan[i].depth > 0
          /\ \A i \in DOMAIN stdout :
                \E e \in SentEntries : PathOf(e) = stdout[i] /\ DepthOf(e) > 0)
    /\ [][\A w \in {1, 2} :
            (w \in Workers /\ wpc[w] = "filter" /\ wpc'[w] # "filter"
                /\ EntryKind(wcur[w]) = "Normal" /\ DepthOf(wcur[w]) = 0)
                => /\ chan' = chan /\ nsent' = nsent
                   /\ quit_now' = quit_now
                   /\ stack' = stack \o Children(wcur[w])]_vars

\* C13 witness: both search roots were skipped, their entries were visited and
\* every match below them was printed: three entries without prune.
C13_Witness ==
    /\ forest = "overlap" /\ ~config.prune /\ config.min_depth = None
    /\ rpc = "done" /\ Len(stdout) = 3 /\ Closed

\* C14: merge_exitcodes of a finite sequence of exit codes, the empty one
\* included, is GeneralError iff an element has a nonzero integer value, that
\* is, is GeneralError, KilledBySigint or HasResults(false); otherwise it is
\* Success; it is never KilledBySigint or HasResults.
C14_MergeIsAnyError ==
    \A m \in merged :
        /\ m = GeneralError <=> \E i \in DOMAIN exit_codes : ExitCodeToInt(exit_codes[i]) # 0
        /\ m = GeneralError
              <=> \E i \in DOMAIN exit_codes :
                     exit_codes[i] \in {GeneralError, KilledBySigint, HasResults(FALSE)}
        /\ m # GeneralError => m = Success
        /\ m \notin {KilledBySigint, HasResults(TRUE), HasResults(FALSE)}
        /\ exit_codes = <<>> => m = Success

\* C14 witness: a sequence whose only error is KilledBySigint merged to
\* GeneralError.
C14_Witness ==
    /\ merged = Some(GeneralError)
    /\ exit_codes = <<Success, HasResults(TRUE), KilledBySigint>>

\* The receiver takes an Error message in this step.
TakesError == rpc = "loop" /\ chan # <<>> /\ Head(chan).type = "Error" /\ chan' = Tail(chan)

\* C15: an Error message taken by the interactive receiver is printed to the
\* error printer iff show_filesystem_errors; it leaves mode, buffer,
\* num_results and the output unchanged, the receiver stays in its loop with
\* the channel open, and the process goes on; the exit code the receiver
\* returns depends on the entries it took and never on the errors.
C15_ErrorsAreNotFatal ==
    /\ [][TakesError
            => /\ config.show_filesystem_errors => stderr' = Append(stderr, Head(chan).path)
               /\ ~config.show_filesystem_errors => stderr' = stderr
               /\ mode' = mode /\ buffer' = buffer /\ num_results' = num_results
               /\ stdout' = stdout /\ flushes' = flushes /\ received' = received
               /\ rpc' = "loop" /\ rx' /\ recv_exit' = None /\ exited' = None]_vars
    /\ [](~config.quiet => num_results = Len(received))
    /\ [](rpc = "done"
            => recv_exit = Some(IF config.quiet THEN HasResults(received # <<>>)
                                ELSE Success))

\* C15 witness: with show_filesystem_errors off, one thread sent two entries
\* and an Error, the receiver took all three, printed the two entries and no
\* error, and returned Success.
C15_Witness ==
    /\ forest = "mixed" /\ ~config.show_filesystem_errors /\ ~config.quiet
    /\ config.threads = 1 /\ nsent[1] = 3
    /\ rpc = "done" /\ chan = <<>> /\ Len(stdout) = 2 /\ stderr = <<>>
    /\ recv_exit = Some(Success)

\* What the metadata() calls so far returned, in order.
MetadataReturns == SelectSeq(calls, LAMBDA c : c.op = "metadata")

\* C16: whatever metadata() and file_type() calls are made on a DirEntry, the
\* file system is asked at most once; once the cell is filled, also with the
\* None of a failed lookup, no call changes it or asks again, and every
\* metadata() call returns what the first returned.
C16_MetadataFetchedOnce ==
    /\ [](/\ lookups <= 1
          /\ lookups = 1 <=> dent.metadata # None
          /\ \A i \in DOMAIN MetadataReturns :
                /\ MetadataReturns[i].ret = MetadataReturns[1].ret
                /\ dent.metadata = Some(MetadataReturns[i].ret)
          /\ \A i \in DOMAIN calls :
                (dent.inner = "BrokenSymlink" /\ dent.metadata = Some(None))
                    => calls[i].ret = None)
    /\ [][dent.metadata # None => (dent' = dent /\ lookups' = lookups)]_vars

\* C16 witness: four calls on a BrokenSymlink, the first a file_type() whose
\* lookup failed; the metadata() calls after it returned None without a
\* second lookup.
C16_Witness ==
    /\ dent = [inner |-> "BrokenSymlink", metadata |-> Some(None)]
    /\ Len(calls) = MaxCalls /\ lookups = 1
    /\ calls[1].op = "file_type" /\ Len(MetadataReturns) >= 2

\* C17: while the interactive non-quiet receiver is between two messages (or
\* has just left its loop), in Buffering nothing has been printed and the
\* buffer holds every entry received so far in arrival order; in Streaming the
\* buffer is empty and every entry received so far has been printed.
C17_ReceiverModeInvariants ==
    (rpc \in {"loop", "final"} /\ ~config.quiet /\ config.command = None)
        => /\ mode = "Buffering" => (stdout = <<>> /\ buffer = ReceivedPaths)
           /\ mode = "Streaming" => (buffer = <<>> /\ stdout = ReceivedPaths)
           /\ mode \in {"Buffering", "Streaming"}

\* C17 witness: the receiver waits for its fourth message in Streaming, after
\* a flush of two entries and one entry streamed.
C17_Witness ==
    /\ rpc = "loop" /\ ~config.quiet /\ mode = "Streaming" /\ flushes = 1
    /\ Len(received) = 3 /\ buffer = <<>>
    /\ now - start > max_buffer_time /\ config.threads = 2

\* C18: once the flag is set each worker thread sends at most one further
\* message; a closure invocation that reads the flag as true returns Quit
\* without sending, whatever it was called on (a root, an error, a match), and
\* with the flag set no worker gets past the check any more.
C18_OneMessageAfterFlag ==
    /\ [](\A w \in Workers : sent_after[w] <= 1)
    /\ [][\A w \in {1, 2} :
            (w \in Workers /\ wants_to_quit)
                => /\ (wpc[w] = "check" /\ wpc'[w] # "check")
                        => /\ wpc'[w] = "get" /\ quit_now'
                           /\ chan' = chan /\ nsent' = nsent /\ stack' = stack
                   /\ wpc'[w] = "filter" => wpc[w] = "filter"]_vars

\* C18 witness: two workers had both passed the check when the flag was set;
\* each sent its one message, a later invocation returned Quit and both stopped.
C18_Witness ==
    /\ config.threads = 2 /\ wants_to_quit /\ quit_now
    /\ \A w \in Workers : sent_after[w] = 1 /\ wpc[w] = "done"

\* C19: the flag is false initially and once true stays true; it changes only
\* in a step of the signal handler, which runs only if ls_colors is present
\* and command is absent; so in a run with a command, and in one without
\* ls_colors, the flag stays false and scan never returns KilledBySigint.
C19_FlagMonotonicHandlerOnly ==
    /\ ~wants_to_quit
    /\ [][wants_to_quit => wants_to_quit']_vars
    /\ [][wants_to_quit' # wants_to_quit
            => /\ config.ls_colors /\ config.command = None
               /\ sigints' = sigints + 1]_vars
    /\ []((config.command # None \/ ~config.ls_colors)
            => /\ ~wants_to_quit /\ sigints = 0
               /\ scan_result # Some(KilledBySigint)
               /\ exited = None)

\* C19 witness: a run with ls_colors and a command for each entry has
\* returned GeneralError, the merged exit code of its two jobs, one of which
\* returned KilledBySigint.
C19_Witness ==
    /\ config.command = Some("each") /\ config.ls_colors /\ config.threads = 2
    /\ scan_pc = "done" /\ scan_result = Some(GeneralError)
    /\ \E j \in Workers : jcode[j] = KilledBySigint
    /\ \E j \in Workers : jcode[j] = Success

\* The handler runs in this step.
HandlerRuns == sigints' = sigints + 1

\* C20: the handler's first invocation sets the flag and does not end the
\* process; every invocation that finds the flag set ends the process at once
\* with status 130, whatever the workers and the receiver are doing, and no
\* thread takes a step after that.
C20_TwoStageHandler ==
    /\ [][HandlerRuns
            => /\ ~wants_to_quit => (wants_to_quit' /\ exited' = None /\ sigints = 0)
               /\ wants_to_quit => (exited' = Some(130) /\ wants_to_quit')
               /\ UNCHANGED <<scanVars, walkVars, recvVars, chan>>]_vars
    /\ [][exited = None]_vars
    /\ [](exited # None => (exited = Some(130) /\ sigints = 2 /\ wants_to_quit))
    /\ []((wants_to_quit /\ Running /\ scan_pc # "done") => ENABLED CtrlC)

\* C20 witness: the second Ctrl-C ended the process with status 130 while a
\* worker was inside the closure and the receiver in its loop with a message
\* waiting.
C20_Witness ==
    /\ exited = Some(130) /\ sigints = 2
    /\ \E w \in Workers : wpc[w] = "filter"
    /\ rpc = "loop" /\ chan # <<>>

\* Worker w leaves the closure in this step.
LeavesClosure(w) == w \in Workers /\ wpc[w] = "filter" /\ wpc'[w] = "get"

\* What the walker pushes when the closure returned Continue for e.
PushedOnContinue(e) == IF PathOf(e) \in DOMAIN Fs.kids THEN Children(e) ELSE <<>>

\* C21: with min_depth configured, 0 and 1 included, no entry of unknown depth
\* (a BrokenSymlink) and no entry of a depth below min_depth is ever sent or
\* printed, and the closure returns Continue for it: it sends nothing, does not
\* stop the walk and the entry's listing is still visited.  Without min_depth
\* a BrokenSymlink that matches the pattern is sent.
C21_MinDepthRejectsUnknownDepth ==
    /\ [](\A md \in config.min_depth :
            /\ \A e \in SentEntries :
                  EntryKind(e) # "BrokenSymlink" /\ DepthOf(e) >= md
            /\ \A i \in DOMAIN stdout : stdout[i] \notin Fs.broken)
    /\ [][\A w \in {1, 2} : \A md \in config.min_depth :
            (/\ LeavesClosure(w)
             /\ \/ EntryKind(wcur[w]) = "BrokenSymlink"
                \/ EntryKind(wcur[w]) = "Normal" /\ DepthOf(wcur[w]) < md)
                => /\ chan' = chan /\ nsent' = nsent /\ produced' = produced
                   /\ quit_now' = quit_now
                   /\ stack' = stack \o PushedOnContinue(wcur[w])]_vars
    /\ [][\A w \in {1, 2} :
            (/\ LeavesClosure(w)
             /\ config.min_depth = None
             /\ EntryKind(wcur[w]) = "BrokenSymlink"
             /\ PathOf(wcur[w]) \notin Fs.nomatch
             /\ ~SendFails)
                => /\ produced' = produced + 1
                   /\ Len(chan') = Len(chan) + 1
                   /\ chan'[Len(chan')].type = "Entry"
                   /\ chan'[Len(chan')].path = PathOf(wcur[w])]_vars

\* C21 witness: with min_depth 0 the walk of a tree with a broken symbolic link
\* among the search roots and another at depth 1 has ended, and only the two
\* entries of known depth were printed.
C21_Witness ==
    /\ forest = "brokenroot" /\ config.min_depth = Some(0) /\ ~config.prune
    /\ rpc = "done" /\ Closed /\ chan = <<>>
    /\ Len(stdout) = 2
    /\ \A i \in DOMAIN stdout : stdout[i] \in {<<1, 1>>, <<1, 1, 1>>}

\* The receiver takes an Entry in this step while it is in Buffering: the
\* entry is pushed before the length and the clock are looked at.
PushesEntry ==
    /\ rpc = "loop" /\ chan # <<>> /\ chan' = Tail(chan)
    /\ Head(chan).type = "Entry" /\ ~config.quiet /\ mode = "Buffering"

\* C22: the receiver's mode changes only from Buffering to Streaming, at most
\* once in a run, and never back, whenever the clock passes max_buffer_time;
\* the buffer never holds more than MAX_BUFFER_LENGTH + 1 entries, neither
\* between two messages nor right after the push that precedes the flush test,
\* and it does not grow in Streaming.
C22_ModeOneWayBufferBounded ==
    /\ [][mode' # mode
            => /\ mode = "Buffering" /\ mode' = "Streaming"
               /\ flushes = 0 /\ flushes' = 1]_vars
    /\ [][mode = "Streaming" => (mode' = "Streaming" /\ buffer' = buffer)]_vars
    /\ [][PushesEntry => Len(Append(buffer, Head(chan).path)) <= MAX_BUFFER_LENGTH + 1]_vars
    /\ [](/\ mode \in {"Buffering", "Streaming"}
          /\ flushes <= 1
          /\ Len(buffer) <= MAX_BUFFER_LENGTH + 1)

\* C22 witness: MAX_BUFFER_LENGTH entries are buffered within the buffering
\* time and one more is waiting in the channel, so that the next push fills the
\* buffer to MAX_BUFFER_LENGTH + 1.
C22_Witness ==
    /\ mode = "Buffering" /\ Len(buffer) = MAX_BUFFER_LENGTH /\ flushes = 0
    /\ rpc = "loop" /\ chan # <<>> /\ Head(chan).type = "Entry"
    /\ config.max_buffer_time = None /\ now = MaxTime

=============================================================================
